---------------------------- MODULE Spec2Model ----------------------------
(***************************************************************************)
(* generic-api-scaffold: the event pipeline (EventBus, Collector,          *)
(* InfluxRepo) and the fx lifecycle that Run drives around them.           *)
(*                                                                         *)
(* Conventions of the model                                                *)
(*  - a float64 reading is kept in tenths (23.5 is 235);                   *)
(*  - a duration or precision literal is the sequence of its tokens        *)
(*    ("250ms" is <<"250", "ms">>, "" is << >>);                           *)
(*  - `now` counts time units (seconds) and is capped by MaxTime;          *)
(*  - a goroutine is a record of `tasks` (handlers) or a pc (collector,    *)
(*    main); an unrecovered panic or os.Exit ends every goroutine.         *)
(***************************************************************************)
EXTENDS Integers, Sequences, FiniteSets, TLC

VARIABLES
    procState,       \* "running" | "exited" | "fatal" | "crashed"
    mainPc,          \* position of main / Run
    ctorIdx,         \* next entry of BuildPlan that fx.New calls
    hooks,           \* fx.Lifecycle hooks, in Append order
    hookIdx,         \* hook the start / stop loop is at
    numStarted,      \* fx.Lifecycle: hooks that app.Start has started
    cancelled,       \* ctx.Done() of the signal context is closed
    subscribers,     \* EventBus.subscribers
    collectorPc,     \* "Idle" | "Spawned" | "Running" | "Stopping" | "Stopped"
    ticker,          \* "none" | "active" | "stopped"
    tickerC,         \* ticks buffered in ticker.C (capacity 1)
    now,             \* clock
    published,       \* history: the calls of EventBus.Publish so far
    tasks,           \* goroutines spawned by Publish, in spawn order
    store,           \* points the store has accepted
    logs,            \* log entries written
    clientNew,       \* calls of client.NewHTTPClient that returned a client
    clientClose,     \* calls of client.Close
    closePhases,     \* values of mainPc at which Close was called
    http,            \* "none" | "serving" | "shutdown"
    cfg,             \* NewInfluxRepo's locals: the settings it read
    storeUp          \* the store answers writes

vars == <<procState, mainPc, ctorIdx, hooks, hookIdx, numStarted, cancelled,
          subscribers, collectorPc, ticker, tickerC, now, published, tasks,
          store, logs, clientNew, clientClose, closePhases, http, cfg, storeUp>>

mainVars == <<mainPc, ctorIdx, hooks, hookIdx, numStarted>>
collectorVars == <<collectorPc, ticker, tickerC>>
busVars == <<subscribers, published, tasks>>
repoVars == <<clientNew, clientClose, closePhases, cfg>>

-----------------------------------------------------------------------------
(* Bounds *)

MaxTime == 6
MaxSubs == 2
BusMaxPub == 2
RepoMaxPub == 2
RepoMaxTime == 2

(* Program constants *)

Interval == 3
TickerCap == 1

Range(s) == {s[i] : i \in 1..Len(s)}

-----------------------------------------------------------------------------
(* Values *)

\* bus.DataCollectedEvent
DataCollectedEvent(id, values) == [DeviceID |-> id, Values |-> values]

NoReadings == [k \in {} |-> 0]

\* The reading Collector.Start synthesizes on every tick.
SampleEvent == DataCollectedEvent("A1", [k \in {"temp"} |-> 235])

-----------------------------------------------------------------------------
(* time.ParseDuration on a tokenized literal: one or more number-unit      *)
(* pairs; "0" alone is also accepted.                                      *)

DurationUnits == {"ns", "us", "ms", "s", "m", "h"}
NumberTokens == {"0", "1", "5", "250"}

RECURSIVE PairsOk(_)
PairsOk(toks) ==
    IF Len(toks) = 0 THEN TRUE
    ELSE /\ Len(toks) >= 2
         /\ toks[1] \in NumberTokens
         /\ toks[2] \in DurationUnits
         /\ PairsOk(SubSeq(toks, 3, Len(toks)))

ParseDurationOk(toks) ==
    \/ toks = <<"0">>
    \/ Len(toks) > 0 /\ PairsOk(toks)

\* url.Parse plus the scheme test of client.NewHTTPClient.
HTTPClientOk(url) == url.scheme \in {"http", "https"}

\* strconv.Atoi on APP_PORT
AtoiOk(s) == s \in {"8080", "9090"}

-----------------------------------------------------------------------------
(* EventBus *)

pubCount == Len(published)

\* The goroutine `go sub(e)` creates: not yet scheduled ("spawned").
NewTask(fn, i, e, n) ==
    [pub |-> n, sub |-> i, fn |-> fn, e |-> e, at |-> now, st |-> "spawned",
     batch |-> << >>, wr |-> 0, onClosed |-> FALSE, doneAt |-> 0]

\* Mutant of SubscribeTo: the handler is registered twice.
SubscribeTwice(subs, fn) == Append(Append(subs, fn), fn)

\* Mutant of SubscribeTo: the handler is put in front of the registry.
SubscribeFirst(subs, fn) == <<fn>> \o subs

\* EventBus.Subscribe: append to the registry.
SubscribeTo(subs, fn) == Append(subs, fn)

\* Mutant of PublishTasks: the loop starts at the second registry entry.
PublishTasksSkipFirst(subs, e, n) ==
    [i \in 1..(Len(subs) - 1) |-> NewTask(subs[i + 1], i + 1, e, n)]

\* Mutant of PublishTasks: the loop runs over the registry twice.
PublishTasksTwice(subs, e, n) ==
    [i \in 1..(2 * Len(subs)) |->
        NewTask(subs[((i - 1) % Len(subs)) + 1], ((i - 1) % Len(subs)) + 1, e, n)]

\* The goroutines one call of Publish spawns: one per registry entry, in
\* registry order, each with the event.
PublishTasks(subs, e, n) == [i \in 1..Len(subs) |-> NewTask(subs[i], i, e, n)]

\* Mutant of Publish: it returns only after every earlier handler has.
PublishWaiting(e) ==
    /\ \A k \in 1..Len(tasks) : tasks[k].st \notin {"spawned", "writing"}
    /\ tasks' = tasks \o PublishTasks(subscribers, e, pubCount + 1)
    /\ published' = Append(published, [e |-> e, subs |-> subscribers, at |-> now,
                                         afterCancel |-> cancelled])
    /\ UNCHANGED subscribers

\* EventBus.Publish: spawn and return; nothing in it reads a task's state.
Publish(e) ==
    /\ tasks' = tasks \o PublishTasks(subscribers, e, pubCount + 1)
    /\ published' = Append(published, [e |-> e, subs |-> subscribers, at |-> now,
                                         afterCancel |-> cancelled])
    /\ UNCHANGED subscribers

Log(msg, tid) == logs' = logs \cup {[msg |-> msg, tid |-> tid]}

\* A panic no goroutine recovers, or os.Exit: the Go runtime ends the process.
Alive == procState = "running"

-----------------------------------------------------------------------------
(* InfluxRepo: the subscriber closure of NewInfluxRepo *)

\* client.NewBatchPoints: the precision must parse as a duration ("1" + p);
\* an empty precision means "ns".  With the error, which the closure
\* discards, it returns a nil BatchPoints.
NewBatchPoints(db, precision) ==
    IF precision = << >> \/ ParseDurationOk(<<"1">> \o precision)
    THEN [nil |-> FALSE, database |-> db, precision |-> precision, points |-> << >>]
    ELSE [nil |-> TRUE, database |-> "", precision |-> << >>, points |-> << >>]

\* Mutant of PointTags: the tag is the sample device, not the event's.
PointTagsFixed(e) == [k \in {"device"} |-> "A1"]

PointTags(e) == [k \in {"device"} |-> e.DeviceID]

PointFields(e) == [k \in DOMAIN e.Values |-> e.Values[k]]

\* client.NewPoint refuses a point without fields.
NewPointOk(fields) == DOMAIN fields # {}

NewPoint(name, tags, fields, t) ==
    [measurement |-> name, tags |-> tags, fields |-> fields, ts |-> t]

\* Mutant of WriteOutcome: after a failed write the event is handled again.
WriteOutcomeRetry(ok) == IF ok THEN "wrote" ELSE "spawned"

\* What the closure does with the result of client.Write.
WriteOutcome(ok) == IF ok THEN "wrote" ELSE "writeFailed"

\* Mutant of AfterWrite: a write error is fatal, as the errors of
\* NewInfluxRepo are.
AfterWriteFatal(ok, ps) == IF ok THEN ps ELSE "fatal"

\* The closure logs the result of client.Write and returns: the process
\* goes on whatever the result.
AfterWrite(ok, ps) == ps

\* One invocation of the closure, up to the call of repo.client.Write.
PersistBegin(i) ==
    LET t == tasks[i]
        bp == NewBatchPoints(cfg.database, cfg.precision)
        fields == PointFields(t.e)
        pt == NewPoint("device_data", PointTags(t.e), fields, now)
    IN  /\ Alive
        /\ t.fn = "persist"
        /\ t.st = "spawned"
        /\ IF ~NewPointOk(fields)
           THEN /\ tasks' = [tasks EXCEPT ![i].st = "pointFailed"]
                /\ Log("influx point create failed", i)
                /\ UNCHANGED procState
           ELSE IF bp.nil
           THEN \* bp.AddPoint on the nil interface: nil dereference
                /\ tasks' = [tasks EXCEPT ![i].st = "panicked"]
                /\ procState' = "crashed"
                /\ UNCHANGED logs
           ELSE /\ tasks' = [tasks EXCEPT ![i].st = "writing",
                                          ![i].batch = Append(bp.points, pt),
                                          ![i].wr = @ + 1,
                                          ![i].onClosed = (clientClose > 0)]
                /\ UNCHANGED <<procState, logs>>
        /\ UNCHANGED <<mainVars, cancelled, subscribers, published,
                       collectorVars, now, store, repoVars, http, storeUp>>

\* client.Write returns: nil or an error.
PersistEnd(i, ok) ==
    LET t == tasks[i]
    IN  /\ Alive
        /\ t.fn = "persist"
        /\ t.st = "writing"
        /\ ok => storeUp
        /\ tasks' = [tasks EXCEPT ![i].st = WriteOutcome(ok), ![i].doneAt = now]
        /\ IF ok
           THEN /\ store' = store \cup {[tid |-> i, n |-> t.wr, batch |-> t.batch]}
                /\ Log("influx write success", i)
           ELSE /\ Log("influx write failed", i)
                /\ UNCHANGED store
        /\ procState' = AfterWrite(ok, procState)
        /\ UNCHANGED <<mainVars, cancelled, subscribers, published, collectorVars, now, repoVars, http, storeUp>>

HandlerBegin == \E i \in 1..Len(tasks) : PersistBegin(i)

HandlerEnd == \E i \in 1..Len(tasks), ok \in BOOLEAN : PersistEnd(i, ok)

-----------------------------------------------------------------------------
(* Collector *)

\* registerHandlers, OnStart: `go c.Start(ctx)`.
CollectorGo == collectorPc' = "Spawned" /\ UNCHANGED <<ticker, tickerC>>

\* Collector.Start up to the select: time.NewTicker(3 * time.Second).
CollectorBegin ==
    /\ Alive
    /\ collectorPc = "Spawned"
    /\ collectorPc' = "Running"
    /\ ticker' = "active"
    /\ UNCHANGED <<tickerC, procState, mainVars, cancelled, busVars, now, store,
                   logs, repoVars, http, storeUp>>

\* The select takes a case that is ready; with both ready Go picks either.
SelectTick == tickerC > 0
SelectDone == cancelled

\* case <-ticker.C: log, build the sample, Publish.
CollectorTick ==
    /\ Alive
    /\ collectorPc = "Running"
    /\ SelectTick
    /\ tickerC' = tickerC - 1
    /\ Log("collecting data...", 0)
    /\ Publish(SampleEvent)
    /\ UNCHANGED <<collectorPc, ticker, procState, mainVars, cancelled, now, store,
                   repoVars, http, storeUp>>

\* case <-ctx.Done(): log and return.
CollectorDone ==
    /\ Alive
    /\ collectorPc = "Running"
    /\ SelectDone
    /\ collectorPc' = "Stopping"
    /\ Log("collector exit", 0)
    /\ UNCHANGED <<ticker, tickerC, procState, mainVars, cancelled, busVars, now,
                   store, repoVars, http, storeUp>>

\* Mutant of DeferredStop: the defer is missing.
NoDeferredStop(t) == t

\* `defer ticker.Stop()`: what the return leaves of the ticker.
DeferredStop(t) == "stopped"

\* The return runs the deferred ticker.Stop().
CollectorReturn ==
    /\ Alive
    /\ collectorPc = "Stopping"
    /\ collectorPc' = "Stopped"
    /\ ticker' = DeferredStop(ticker)
    /\ UNCHANGED <<tickerC, procState, mainVars, cancelled, busVars, now, store,
                   logs, repoVars, http, storeUp>>

\* A tick the runtime sends into ticker.C: dropped when the buffer is full.
TickerSend(c) == IF c < TickerCap THEN c + 1 ELSE c

\* The select of a running loop has a ready case.
SelectReady == collectorPc = "Running" /\ (SelectTick \/ SelectDone)

\* One time unit passes; an active ticker fires every Interval units after
\* its creation (the clock of the application starts with the ticker).  A
\* select with a ready case proceeds within the time unit.
Tick ==
    /\ Alive
    /\ ticker # "none"
    /\ ~SelectReady
    /\ now < MaxTime
    /\ now' = now + 1
    /\ tickerC' = IF ticker = "active" /\ (now + 1) % Interval = 0
                  THEN TickerSend(tickerC) ELSE tickerC
    /\ UNCHANGED <<collectorPc, ticker, procState, mainVars, cancelled, busVars,
                   store, logs, repoVars, http, storeUp>>

-----------------------------------------------------------------------------
(* Run: the fx container.  fx.New calls the Invoke functions in order and,  *)
(* for each parameter not built yet, its provider first (depth first, in    *)
(* parameter order); fx.Lifecycle is supplied by fx itself.                 *)

\* Mutant of Params: NewCollector does not ask for the *InfluxRepo.
ParamsWithoutRepo(f) ==
    CASE f = "NewLogger"        -> << >>
      [] f = "NewEventBus"      -> <<"Logger">>
      [] f = "NewHTTPServer"    -> <<"Logger">>
      [] f = "NewInfluxRepo"    -> <<"Lifecycle", "Logger", "EventBus">>
      [] f = "NewCollector"     -> <<"Logger", "EventBus">>
      [] f = "registerHandlers" -> <<"Lifecycle", "Collector">>
      [] f = "RegisterHooks"    -> <<"Lifecycle", "Server">>

Params(f) ==
    CASE f = "NewLogger"        -> << >>
      [] f = "NewEventBus"      -> <<"Logger">>
      [] f = "NewHTTPServer"    -> <<"Logger">>
      [] f = "NewInfluxRepo"    -> <<"Lifecycle", "Logger", "EventBus">>
      [] f = "NewCollector"     -> <<"Logger", "EventBus", "InfluxRepo">>
      [] f = "registerHandlers" -> <<"Lifecycle", "Collector">>
      [] f = "RegisterHooks"    -> <<"Lifecycle", "Server">>

\* fx.Provide(...)
Provider(t) ==
    CASE t = "Logger"     -> "NewLogger"
      [] t = "EventBus"   -> "NewEventBus"
      [] t = "Server"     -> "NewHTTPServer"
      [] t = "InfluxRepo" -> "NewInfluxRepo"
      [] t = "Collector"  -> "NewCollector"

\* fx.Invoke(...)
Invokes == <<"registerHandlers", "RegisterHooks">>

RECURSIVE Build(_, _, _)
\* The calls made, after those of `done`, to call f: args i.. of f, then f.
Build(f, i, done) ==
    IF i > Len(Params(f)) THEN Append(done, f)
    ELSE LET t == Params(f)[i]
         IN  IF t = "Lifecycle" \/ Provider(t) \in Range(done)
             THEN Build(f, i + 1, done)
             ELSE Build(f, i + 1, Build(Provider(t), 1, done))

RECURSIVE BuildAll(_, _)
BuildAll(k, done) ==
    IF k > Len(Invokes) THEN done ELSE BuildAll(k + 1, Build(Invokes[k], 1, done))

\* The order in which fx.New calls constructors and invoke functions.
BuildPlan == BuildAll(1, << >>)

AtCtor(f) == Alive /\ mainPc = "construct" /\ BuildPlan[ctorIdx] = f

\* fx.New moves on; after the last call Run calls app.Start(ctx).
CtorReturns ==
    IF ctorIdx = Len(BuildPlan)
    THEN mainPc' = "start" /\ hookIdx' = 1 /\ UNCHANGED ctorIdx
    ELSE ctorIdx' = ctorIdx + 1 /\ UNCHANGED <<mainPc, hookIdx>>

\* zap's Logger.Fatal: write the entry, then os.Exit(1).
Fatal(msg) == procState' = "fatal" /\ Log(msg, 0)

-----------------------------------------------------------------------------
(* The process environment *)

EnvDatabase == {"", "telemetry"}
EnvPrecision == {<< >>, <<"fortnight">>}
EnvTimeout == {<< >>, <<"soon">>}
EnvURL == {"", "influx:8086"}
EnvPort == {"", "9090", "http"}

\* url.Parse: the scheme of an address.
ParseURL(addr) ==
    CASE addr = "http://localhost:8086" -> [scheme |-> "http", host |-> "localhost:8086"]
      [] addr = "https://influx:8086"   -> [scheme |-> "https", host |-> "influx:8086"]
      [] addr = "influx:8086"           -> [scheme |-> "influx", host |-> ""]

\* The settings NewInfluxRepo holds once it has read the environment.
InfluxConfig(db, precision, timeout, url) ==
    [read |-> TRUE, database |-> db, precision |-> precision, timeout |-> timeout,
     url |-> url]

NoConfig ==
    [read |-> FALSE, database |-> "", precision |-> << >>, timeout |-> << >>,
     url |-> ""]

\* `if v == "" { v = default }`
OrDefault(v, empty, d) == IF v = empty THEN d ELSE v

-----------------------------------------------------------------------------
(* main *)

\* godotenv.Load, then signal.NotifyContext and app.Run(ctx).
MainLoadEnv ==
    /\ Alive
    /\ mainPc = "loadEnv"
    /\ \E loaded \in BOOLEAN :
          IF loaded
          THEN /\ mainPc' = "construct"
               /\ UNCHANGED <<procState, logs>>
          ELSE /\ Fatal("Error loading .env file")
               /\ UNCHANGED mainPc
    /\ UNCHANGED <<ctorIdx, hooks, hookIdx, numStarted, cancelled, busVars,
                   collectorVars, now, store, repoVars, http, storeUp>>

\* SIGINT or SIGTERM reaches the process: the context is cancelled.
Signal ==
    /\ Alive
    /\ mainPc # "loadEnv"
    /\ ~cancelled
    /\ cancelled' = TRUE
    /\ UNCHANGED <<procState, mainVars, busVars, collectorVars, now, store, logs,
                   repoVars, http, storeUp>>

-----------------------------------------------------------------------------
(* Constructors and invoke functions, as fx.New calls them *)

NewLogger ==
    /\ AtCtor("NewLogger")
    /\ CtorReturns
    /\ UNCHANGED <<procState, hooks, numStarted, cancelled, busVars, collectorVars,
                   now, store, logs, repoVars, http, storeUp>>

NewEventBus ==
    /\ AtCtor("NewEventBus")
    /\ subscribers' = << >>
    /\ CtorReturns
    /\ UNCHANGED <<procState, hooks, numStarted, cancelled, published,
                   tasks, collectorVars, now, store, logs, repoVars, http, storeUp>>

\* The checks of NewInfluxRepo, in source order: the first that fails is
\* fatal; "" when none fails.
InfluxConfigError(db, timeout, url) ==
    IF db = "" THEN "influx database is required"
    ELSE IF ~ParseDurationOk(timeout) THEN "failed to parse influx timeout"
    ELSE IF ~HTTPClientOk(ParseURL(url)) THEN "failed to connect influxdb"
    ELSE ""

\* Mutant of InfluxHooks: the OnStop hook is never appended.
InfluxHooksForgotten(hs) == hs

\* lc.Append(fx.Hook{OnStop: ...}) of NewInfluxRepo.
InfluxHooks(hs) == Append(hs, "influx")

\* NewInfluxRepo: read the environment, build the client, subscribe the
\* closure, append the OnStop hook.
NewInfluxRepo ==
    /\ AtCtor("NewInfluxRepo")
    /\ \E envDb \in EnvDatabase, envPrec \in EnvPrecision,
          envTimeout \in EnvTimeout, envURL \in EnvURL :
          LET url == OrDefault(envURL, "", "http://localhost:8086")
              precision == OrDefault(envPrec, << >>, <<"s">>)
              timeout == OrDefault(envTimeout, << >>, <<"5", "s">>)
              err == InfluxConfigError(envDb, timeout, url)
          IN  /\ cfg' = InfluxConfig(envDb, precision, timeout, url)
              /\ IF err # ""
                 THEN /\ Fatal(err)
                      /\ UNCHANGED <<mainVars, subscribers, clientNew>>
                 ELSE /\ clientNew' = clientNew + 1
                      /\ subscribers' = SubscribeTo(subscribers, "persist")
                      /\ hooks' = InfluxHooks(hooks)
                      /\ CtorReturns
                      /\ UNCHANGED <<procState, logs, numStarted>>
    /\ UNCHANGED <<cancelled, published, tasks, collectorVars, now, store, http,
                   storeUp, clientClose, closePhases>>

NewCollector ==
    /\ AtCtor("NewCollector")
    /\ CtorReturns
    /\ UNCHANGED <<procState, hooks, numStarted, cancelled, busVars, collectorVars,
                   now, store, logs, repoVars, http, storeUp>>

\* registerHandlers: append the collector's OnStart / OnStop hook.
registerHandlers ==
    /\ AtCtor("registerHandlers")
    /\ hooks' = Append(hooks, "collector")
    /\ CtorReturns
    /\ UNCHANGED <<procState, numStarted, cancelled, busVars, collectorVars, now,
                   store, logs, repoVars, http, storeUp>>

\* NewHTTPServer: APP_PORT (default 8080) must be a number.
NewHTTPServer ==
    /\ AtCtor("NewHTTPServer")
    /\ \E envPort \in EnvPort :
          IF AtoiOk(OrDefault(envPort, "", "8080"))
          THEN /\ CtorReturns
               /\ UNCHANGED <<procState, logs>>
          ELSE /\ Fatal("Invalid port value, unable to convert to int")
               /\ UNCHANGED <<mainPc, ctorIdx, hookIdx>>
    /\ UNCHANGED <<hooks, numStarted, cancelled, busVars, collectorVars, now, store,
                   repoVars, http, storeUp>>

\* RegisterHooks: append the server's OnStart / OnStop hook.
RegisterHooks ==
    /\ AtCtor("RegisterHooks")
    /\ hooks' = Append(hooks, "http")
    /\ CtorReturns
    /\ UNCHANGED <<procState, numStarted, cancelled, busVars, collectorVars, now,
                   store, logs, repoVars, http, storeUp>>

-----------------------------------------------------------------------------
(* app.Start(ctx): fx runs the hooks in Append order; before each it tests  *)
(* ctx.Err() and gives up when the context is cancelled.  A hook counts as  *)
(* started once its OnStart (if any) has returned.                          *)

AtStart(h) ==
    /\ Alive
    /\ mainPc = "start"
    /\ hookIdx <= Len(hooks)
    /\ hooks[hookIdx] = h
    /\ ~cancelled

\* The loop of app.Start moves on; after the last hook Run waits.
HookStarted ==
    /\ numStarted' = numStarted + 1
    /\ hookIdx' = hookIdx + 1
    /\ mainPc' = IF hookIdx = Len(hooks) THEN "wait" ELSE mainPc
    /\ UNCHANGED <<ctorIdx, hooks>>

\* The hook of NewInfluxRepo has no OnStart.
StartInflux ==
    /\ AtStart("influx")
    /\ HookStarted
    /\ UNCHANGED <<procState, cancelled, busVars, collectorVars, now, store, logs,
                   repoVars, http, storeUp>>

StartCollector ==
    /\ AtStart("collector")
    /\ CollectorGo
    /\ HookStarted
    /\ UNCHANGED <<procState, cancelled, busVars, now, store, logs, repoVars, http,
                   storeUp>>

\* RegisterHooks, OnStart: build http.Server, `go ListenAndServe()`.
StartHTTP ==
    /\ AtStart("http")
    /\ http' = "serving"
    /\ Log("http server starting", 0)
    /\ HookStarted
    /\ UNCHANGED <<procState, cancelled, busVars, collectorVars, now, store,
                   repoVars, storeUp>>

\* ctx.Err() # nil before a hook: app.Start returns the error, which Run drops.
StartAborted ==
    /\ Alive
    /\ mainPc = "start"
    /\ cancelled
    /\ mainPc' = "wait"
    /\ UNCHANGED <<ctorIdx, hooks, hookIdx, numStarted, procState, cancelled,
                   busVars, collectorVars, now, store, logs, repoVars, http, storeUp>>

-----------------------------------------------------------------------------
(* <-ctx.Done(), then app.Stop: the OnStop of every started hook, last      *)
(* started first.                                                           *)

\* Mutant of RunWait: Run does not block on <-ctx.Done().
RunNoWait ==
    /\ Alive
    /\ mainPc = "wait"
    /\ mainPc' = "stop"
    /\ hookIdx' = numStarted
    /\ UNCHANGED <<ctorIdx, hooks, numStarted, procState, cancelled, busVars,
                   collectorVars, now, store, logs, repoVars, http, storeUp>>

\* `<-ctx.Done()`, then app.Stop(context.Background()).
RunWait ==
    /\ Alive
    /\ mainPc = "wait"
    /\ cancelled
    /\ mainPc' = "stop"
    /\ hookIdx' = numStarted
    /\ UNCHANGED <<ctorIdx, hooks, numStarted, procState, cancelled, busVars,
                   collectorVars, now, store, logs, repoVars, http, storeUp>>

AtStop(h) ==
    /\ Alive
    /\ mainPc = "stop"
    /\ hookIdx >= 1
    /\ hooks[hookIdx] = h

HookStopped ==
    /\ hookIdx' = hookIdx - 1
    /\ UNCHANGED <<mainPc, ctorIdx, hooks, numStarted>>

\* RegisterHooks, OnStop: s.srv.Shutdown.
StopHTTP ==
    /\ AtStop("http")
    /\ http' = "shutdown"
    /\ Log("http server stopping", 0)
    /\ HookStopped
    /\ UNCHANGED <<procState, cancelled, busVars, collectorVars, now, store,
                   repoVars, storeUp>>

\* registerHandlers, OnStop: a log line; the loop is not awaited.
StopCollector ==
    /\ AtStop("collector")
    /\ Log("collector stopped", 0)
    /\ HookStopped
    /\ UNCHANGED <<procState, cancelled, busVars, collectorVars, now, store,
                   repoVars, http, storeUp>>

\* Mutant of StopInflux: the hook waits until no delivery is in flight.
StopInfluxDrained ==
    /\ AtStop("influx")
    /\ \A k \in 1..Len(tasks) : tasks[k].st \notin {"spawned", "writing"}
    /\ clientClose' = clientClose + 1
    /\ closePhases' = closePhases \cup {mainPc}
    /\ HookStopped
    /\ UNCHANGED <<procState, cancelled, busVars, collectorVars, now, store, logs,
                   clientNew, cfg, http, storeUp>>

\* NewInfluxRepo, OnStop: repo.client.Close().
StopInflux ==
    /\ AtStop("influx")
    /\ clientClose' = clientClose + 1
    /\ closePhases' = closePhases \cup {mainPc}
    /\ HookStopped
    /\ UNCHANGED <<procState, cancelled, busVars, collectorVars, now, store, logs,
                   clientNew, cfg, http, storeUp>>

\* app.Stop has returned: Run and main return, and the process ends with
\* every goroutine still running.
RunReturn ==
    /\ Alive
    /\ mainPc = "stop"
    /\ hookIdx = 0
    /\ mainPc' = "done"
    /\ procState' = "exited"
    /\ UNCHANGED <<ctorIdx, hooks, hookIdx, numStarted, cancelled, busVars,
                   collectorVars, now, store, logs, repoVars, http, storeUp>>

-----------------------------------------------------------------------------
(* The application *)

Init ==
    /\ procState = "running"
    /\ mainPc = "loadEnv"
    /\ ctorIdx = 1
    /\ hooks = << >>
    /\ hookIdx = 0
    /\ numStarted = 0
    /\ cancelled = FALSE
    /\ subscribers = << >>
    /\ collectorPc = "Idle"
    /\ ticker = "none"
    /\ tickerC = 0
    /\ now = 0
    /\ published = << >>
    /\ tasks = << >>
    /\ store = {}
    /\ logs = {}
    /\ clientNew = 0
    /\ clientClose = 0
    /\ closePhases = {}
    /\ http = "none"
    /\ cfg = NoConfig
    /\ storeUp \in BOOLEAN

Next ==
    \/ MainLoadEnv
    \/ Signal
    \/ NewLogger
    \/ NewEventBus
    \/ NewInfluxRepo
    \/ NewCollector
    \/ registerHandlers
    \/ NewHTTPServer
    \/ RegisterHooks
    \/ StartInflux
    \/ StartCollector
    \/ StartHTTP
    \/ StartAborted
    \/ RunWait
    \/ StopHTTP
    \/ StopCollector
    \/ StopInflux
    \/ RunReturn
    \/ CollectorBegin
    \/ CollectorTick
    \/ CollectorDone
    \/ CollectorReturn
    \/ Tick
    \/ HandlerBegin
    \/ HandlerEnd

Spec == Init /\ [][Next]_vars

-----------------------------------------------------------------------------------------------------------------------------------------------------
(* The EventBus under an arbitrary client: one goroutine that subscribes    *)
(* handlers and publishes events, then returns.  A handler either returns   *)
(* ("noop") or panics ("faulty").                                           *)

BusHandlers == {"noop", "faulty"}

BusEvents ==
    {SampleEvent,
     DataCollectedEvent("B2", [k \in {"temp", "hum"} |-> IF k = "temp" THEN 198 ELSE 40]),
     DataCollectedEvent("A1", NoReadings)}

BusSubscribe ==
    /\ Alive
    /\ mainPc = "client"
    /\ Len(subscribers) < MaxSubs
    /\ \E fn \in BusHandlers : subscribers' = SubscribeTo(subscribers, fn)
    /\ UNCHANGED <<procState, mainVars, cancelled, published, tasks,
                   collectorVars, now, store, logs, repoVars, http, storeUp>>

BusPublish ==
    /\ Alive
    /\ mainPc = "client"
    /\ pubCount < BusMaxPub
    /\ \E e \in BusEvents : Publish(e)
    /\ UNCHANGED <<procState, mainVars, cancelled, collectorVars, now, store, logs,
                   repoVars, http, storeUp>>

\* `go sub(e)` for a handler that returns.
NoopRun ==
    /\ Alive
    /\ \E i \in 1..Len(tasks) :
          /\ tasks[i].fn = "noop"
          /\ tasks[i].st = "spawned"
          /\ tasks' = [tasks EXCEPT ![i].st = "returned"]
    /\ UNCHANGED <<procState, mainVars, cancelled, subscribers, published, collectorVars, now, store, logs, repoVars, http,
                   storeUp>>

\* `go sub(e)` for a handler that panics: nothing recovers it.
FaultyRun ==
    /\ Alive
    /\ \E i \in 1..Len(tasks) :
          /\ tasks[i].fn = "faulty"
          /\ tasks[i].st = "spawned"
          /\ tasks' = [tasks EXCEPT ![i].st = "panicked"]
    /\ procState' = "crashed"
    /\ UNCHANGED <<mainVars, cancelled, subscribers, published,
                   collectorVars, now, store, logs, repoVars, http, storeUp>>

\* The client's main function returns: the process ends.
ClientExit ==
    /\ Alive
    /\ mainPc = "client"
    /\ mainPc' = "done"
    /\ procState' = "exited"
    /\ UNCHANGED <<ctorIdx, hooks, hookIdx, numStarted, cancelled, busVars,
                   collectorVars, now, store, logs, repoVars, http, storeUp>>

ClientInit ==
    /\ procState = "running"
    /\ mainPc = "client"
    /\ ctorIdx = 1
    /\ hooks = << >>
    /\ hookIdx = 0
    /\ numStarted = 0
    /\ cancelled = FALSE
    /\ collectorPc = "Idle"
    /\ ticker = "none"
    /\ tickerC = 0
    /\ now = 0
    /\ published = << >>
    /\ tasks = << >>
    /\ store = {}
    /\ logs = {}
    /\ clientClose = 0
    /\ closePhases = {}
    /\ http = "none"

BusInit ==
    /\ ClientInit
    /\ subscribers = << >>
    /\ clientNew = 0
    /\ cfg = NoConfig
    /\ storeUp = TRUE

BusNext ==
    \/ BusSubscribe
    \/ BusPublish
    \/ NoopRun
    \/ FaultyRun
    \/ ClientExit

BusSpec == BusInit /\ [][BusNext]_vars

-----------------------------------------------------------------------------
(* The persistence consumer under an arbitrary producer: NewInfluxRepo has  *)
(* returned (any configuration it accepts), and a client publishes events   *)
(* while time passes.                                                       *)

RepoPublish ==
    /\ Alive
    /\ mainPc = "client"
    /\ pubCount < RepoMaxPub
    /\ \E e \in BusEvents : Publish(e)
    /\ UNCHANGED <<procState, mainVars, cancelled, collectorVars, now, store, logs,
                   repoVars, http, storeUp>>

RepoTick ==
    /\ Alive
    /\ mainPc = "client"
    /\ now < RepoMaxTime
    /\ now' = now + 1
    /\ UNCHANGED <<procState, mainVars, cancelled, busVars, collectorVars, store,
                   logs, repoVars, http, storeUp>>

RepoInit ==
    /\ ClientInit
    /\ subscribers = SubscribeTo(<< >>, "persist")
    /\ clientNew = 1
    /\ cfg \in {InfluxConfig("telemetry", OrDefault(p, << >>, <<"s">>),
                            <<"5", "s">>, "http://localhost:8086") : p \in EnvPrecision}
    /\ storeUp = TRUE

RepoNext ==
    \/ RepoPublish
    \/ RepoTick
    \/ HandlerBegin
    \/ HandlerEnd
    \/ ClientExit

RepoSpec == RepoInit /\ [][RepoNext]_vars

-----------------------------------------------------------------------------
(* Scheduling: the Go scheduler runs every runnable goroutine of a live     *)
(* process, and a select with a ready case takes one; nothing obliges the   *)
(* client, the signal or the clock to move.                                 *)

FairBusSpec == BusSpec /\ WF_vars(NoopRun) /\ WF_vars(FaultyRun)

FairSpec ==
    /\ Spec
    /\ WF_vars(CollectorBegin)
    /\ WF_vars(CollectorDone)
    /\ WF_vars(CollectorReturn)

-----------------------------------------------------------------------------
(* Properties *)

\* The handler at registry position i has been called with the event of
\* publish number n (it may still be running, or have returned or panicked).
Invoked(n, i) ==
    \E k \in 1..Len(tasks) :
        /\ tasks[k].pub = n
        /\ tasks[k].sub = i
        /\ tasks[k].fn = published[n].subs[i]
        /\ tasks[k].e = published[n].e
        /\ tasks[k].st # "spawned"

InFlight(k) == tasks[k].st \in {"spawned", "writing"}

\* Every handler that a Publish so far found in the registry has been
\* called with the published event.
AllInvoked ==
    \A n \in 1..Len(published) :
        \A i \in 1..Len(published[n].subs) : Invoked(n, i)

C2_NoPropagationIsolation ==
    \A k \in 1..Len(tasks) :
        tasks[k].st = "panicked" =>
            /\ Alive
            /\ \A j \in 1..Len(tasks) :
                  (j # k /\ tasks[j].pub = tasks[k].pub) =>
                      (tasks[j].st # "spawned" \/ Alive)

\* C3 as stated: no call of Publish is made once ctx.Done() is closed.
C3_NoPublishAfterCancel ==
    \A n \in 1..Len(published) : ~published[n].afterCancel

LoopLive == collectorPc \in {"Spawned", "Running", "Stopping"}

C5_RoundTripPersistence ==
    /\ \A k \in 1..Len(tasks) :
          tasks[k].st = "wrote" =>
              LET pub == published[tasks[k].pub]
                  got == {s \in store : s.tid = k}
              IN  /\ Cardinality(got) = 1
                  /\ \A s \in got :
                        /\ Len(s.batch) = 1
                        /\ s.batch[1].measurement = "device_data"
                        /\ DOMAIN s.batch[1].tags = {"device"}
                        /\ s.batch[1].tags["device"] = pub.e.DeviceID
                        /\ DOMAIN s.batch[1].fields = DOMAIN pub.e.Values
                        /\ \A f \in DOMAIN pub.e.Values :
                              s.batch[1].fields[f] = pub.e.Values[f]
                        /\ pub.at <= s.batch[1].ts
                        /\ s.batch[1].ts <= tasks[k].doneAt
    /\ \A s \in store : s.tid \in 1..Len(tasks) /\ tasks[s.tid].st = "wrote"

\* C5 witness: an event with two readings was stored, stamped strictly after
\* its Publish and strictly before the write returned.
C5_Witness ==
    \E k \in 1..Len(tasks) :
        /\ tasks[k].st = "wrote"
        /\ DOMAIN tasks[k].e.Values = {"temp", "hum"}
        /\ \E s \in store :
              /\ s.tid = k
              /\ tasks[k].at < s.batch[1].ts
              /\ s.batch[1].ts < tasks[k].doneAt

\* C6: the step in which a write returns an error logs the failure for that
\* event and changes nothing else: the process, the collector and its
\* ticker, the registry, the store and every other handler are as before;
\* and a handler whose own write can succeed can always complete with
\* success, whatever happened to the others.
C6_WriteFailureContainment ==
    /\ [][\A i \in 1..Len(tasks) :
              (tasks[i].st = "writing" /\ tasks'[i].st = "writeFailed") =>
                  /\ [msg |-> "influx write failed", tid |-> i] \in logs'
                  /\ store' = store
                  /\ procState' = procState
                  /\ collectorPc' = collectorPc
                  /\ ticker' = ticker
                  /\ tickerC' = tickerC
                  /\ subscribers' = subscribers
                  /\ published' = published
                  /\ \A j \in 1..Len(tasks) : j # i => tasks'[j] = tasks[j]]_vars
    /\ [](\A i \in 1..Len(tasks) :
              (Alive /\ tasks[i].st = "writing" /\ storeUp) =>
                  ENABLED PersistEnd(i, TRUE))

\* C6 witness: the write of one event failed, the write of a later event
\* succeeded, and the collector is still running.
C6_Witness ==
    /\ Alive
    /\ collectorPc = "Running"
    /\ \E i, j \in 1..Len(tasks) :
          /\ tasks[i].pub < tasks[j].pub
          /\ tasks[i].st = "writeFailed"
          /\ tasks[j].st = "wrote"

\* C7: the persistence handler is in the registry from the moment the
\* collector loop is started, and every Publish found it there.
C7_RegistrationPrecedesProduction ==
    /\ collectorPc # "Idle" => "persist" \in Range(subscribers)
    /\ \A n \in 1..Len(published) : "persist" \in Range(published[n].subs)

\* C7 witness: the collector has published.
C7_Witness == collectorPc = "Running" /\ pubCount > 0

\* C8: whenever the loop holds a tick, the tick case with its Publish can
\* be taken, whatever the state of the handlers spawned before.
C8_FireAndForgetPublish ==
    (Alive /\ collectorPc = "Running" /\ SelectTick) => ENABLED CollectorTick

\* C8 witness: event N + 1 has been published while a handler of event N is
\* still in flight, and two invocations of the persistence handler are in
\* flight together.
C8_Witness ==
    \E j, k \in 1..Len(tasks) :
        /\ tasks[j].pub < tasks[k].pub
        /\ tasks[j].fn = "persist" /\ tasks[k].fn = "persist"
        /\ InFlight(j) /\ InFlight(k)

\* C9 as stated: with the database name missing, the timeout unparsable or
\* the store unreachable, the collector loop is never started, no consumer
\* is registered and the HTTP server never serves.
C9_ConfigErrorsFatal ==
    (cfg.read /\ (cfg.database = "" \/ ~ParseDurationOk(cfg.timeout) \/ ~storeUp))
        => /\ collectorPc = "Idle"
           /\ "persist" \notin Range(subscribers)
           /\ http = "none"

\* Close was called only while Run was in app.Stop.
ClosedInStopOnly == closePhases \subseteq {"stop"}

C11_Cadence ==
    /\ \A n \in 1..Len(published) :
          /\ published[n].at >= Interval
          /\ published[n].e = SampleEvent
    /\ (ticker = "active" /\ ~cancelled) => pubCount + tickerC = now \div Interval
    /\ (ticker = "active" /\ ~cancelled /\ tickerC > 0) => ENABLED CollectorTick

\* Position of Run in its sequence: load, fx.New, app.Start, wait, app.Stop.
PhaseRank(pc) ==
    CASE pc = "loadEnv"   -> 0
      [] pc = "construct" -> 1
      [] pc = "start"     -> 2
      [] pc = "wait"      -> 3
      [] pc = "stop"      -> 4
      [] pc = "done"      -> 5

\* An OnStop hook has run (or app.Stop has been entered).
StopRan ==
    \/ mainPc \in {"stop", "done"}
    \/ http = "shutdown"
    \/ clientClose > 0
    \/ \E l \in logs : l.msg \in {"http server stopping", "collector stopped"}

C13_ShutdownRace ==
    /\ AtStop("influx") => ENABLED StopInflux
    /\ \A i \in 1..Len(tasks) :
          /\ (Alive /\ tasks[i].fn = "persist" /\ tasks[i].st = "spawned")
                => ENABLED PersistBegin(i)
          /\ (Alive /\ tasks[i].fn = "persist" /\ tasks[i].st = "writing")
                => ENABLED PersistEnd(i, FALSE)
          /\ tasks[i].onClosed => (clientClose > 0 /\ tasks[i].wr = 1)

\* C13 witness: the client has been closed in a live process while one
\* invocation of the persistence handler has not started and another has
\* called Write on the closed client and not yet returned.
C13_Witness ==
    /\ Alive
    /\ clientClose > 0
    /\ \E i, j \in 1..Len(tasks) :
          /\ tasks[i].fn = "persist" /\ tasks[i].st = "spawned"
          /\ tasks[j].fn = "persist" /\ tasks[j].st = "writing"
          /\ tasks[j].onClosed

\* The goroutines spawned by publish number n for registry position i.
Dispatched(n, i) == {k \in 1..Len(tasks) : tasks[k].pub = n /\ tasks[k].sub = i}

\* C14: every Publish found k handlers and spawned exactly k goroutines,
\* one per registry entry, each for the handler of that entry and with the
\* published event; every goroutine belongs to one Publish and one entry of
\* the registry that Publish found; the call itself adds exactly k tasks;
\* and a goroutine, once it has run, is never run again.
C14_OneDispatchPerSubscriber ==
    /\ [](\A n \in 1..Len(published) :
              \A i \in 1..Len(published[n].subs) :
                  /\ Cardinality(Dispatched(n, i)) = 1
                  /\ \A k \in Dispatched(n, i) :
                        /\ tasks[k].fn = published[n].subs[i]
                        /\ tasks[k].e = published[n].e)
    /\ [](\A k \in 1..Len(tasks) :
              /\ tasks[k].pub \in 1..Len(published)
              /\ tasks[k].sub \in 1..Len(published[tasks[k].pub].subs))
    /\ [][/\ Len(published') = Len(published) + 1 =>
                 /\ Len(tasks') = Len(tasks) + Len(subscribers)
                 /\ published'[Len(published')].subs = subscribers
                 /\ \A k \in (Len(tasks) + 1)..Len(tasks') : tasks'[k].st = "spawned"
          /\ Len(published') = Len(published) => Len(tasks') = Len(tasks)
          /\ \A k \in 1..Len(tasks) :
                 /\ tasks'[k].pub = tasks[k].pub
                 /\ tasks'[k].sub = tasks[k].sub
                 /\ tasks'[k].fn = tasks[k].fn
                 /\ tasks'[k].e = tasks[k].e
                 /\ tasks'[k].st = "spawned" => tasks[k].st = "spawned"]_vars

\* C14 witness: two different events were published to a registry of two
\* different handlers, the four goroutines exist and one has run.
C14_Witness ==
    /\ Len(published) = 2
    /\ published[1].e # published[2].e
    /\ \A n \in 1..2 :
          /\ Len(published[n].subs) = 2
          /\ published[n].subs[1] # published[n].subs[2]
    /\ Len(tasks) = 4
    /\ \E k \in 1..Len(tasks) : tasks[k].st = "returned"

\* The invocation k of the persistence handler has dropped its event.
Dropped(k) == tasks[k].st \in {"pointFailed", "writeFailed"}

\* C15: an invocation of the persistence handler calls Write at most once,
\* with a batch of exactly one point, and the store holds at most one batch
\* for it; when the point cannot be built Write is not called; an event
\* whose point or write failed is in no batch of the store and its
\* invocation never moves again; and a step of the handler publishes
\* nothing, spawns nothing and leaves the registry, the producer and the
\* cancellation as they are (a failing step leaves the process running).
C15_NoRetryOnePoint ==
    /\ [](\A k \in 1..Len(tasks) :
              /\ tasks[k].wr <= 1
              /\ tasks[k].wr = 1 => Len(tasks[k].batch) = 1
              /\ tasks[k].st = "pointFailed" => (tasks[k].wr = 0 /\ tasks[k].batch = << >>)
              /\ Dropped(k) => \A s \in store : s.tid # k
              /\ Cardinality({s \in store : s.tid = k}) <= 1)
    /\ [](\A s \in store : Len(s.batch) = 1 /\ s.n = 1)
    /\ [][\A k \in 1..Len(tasks) :
              /\ Dropped(k) => tasks'[k] = tasks[k]
              /\ tasks'[k].st # tasks[k].st =>
                    /\ published' = published
                    /\ Len(tasks') = Len(tasks)
                    /\ subscribers' = subscribers
                    /\ collectorPc' = collectorPc
                    /\ ticker' = ticker
                    /\ tickerC' = tickerC
                    /\ cancelled' = cancelled
                    /\ (tasks'[k].st \in {"pointFailed", "writeFailed"}
                           => procState' = procState)]_vars

\* C15 witness: the point of one event could not be built, the write of
\* another failed, time has passed since, and the store holds nothing.
C15_Witness ==
    /\ Alive
    /\ store = {}
    /\ \E i, j \in 1..Len(tasks) :
          /\ tasks[i].st = "pointFailed"
          /\ tasks[j].st = "writeFailed"
          /\ tasks[j].wr = 1
          /\ now > tasks[j].doneAt

\* Position of the producer in its life: Idle, started (`go c.Start`, which
\* has not yet created its ticker), Running, Stopping, Stopped.
CollectorRank(pc) ==
    CASE pc = "Idle"     -> 0
      [] pc = "Spawned"  -> 1
      [] pc = "Running"  -> 2
      [] pc = "Stopping" -> 3
      [] pc = "Stopped"  -> 4

\* C16 as stated: the producer moves one state forward at a time; it leaves
\* Running only with the context cancelled, and a running loop ends with
\* the process only after the cancellation (no tick, Publish or consumer
\* failure ends it); only a running loop publishes, and a stopped one stays
\* stopped and publishes nothing.
C16_ProducerStateMachine ==
    [][/\ collectorPc' # collectorPc =>
              CollectorRank(collectorPc') = CollectorRank(collectorPc) + 1
       /\ (collectorPc = "Running" /\ collectorPc' # "Running") => cancelled
       /\ (collectorPc = "Running" /\ Alive /\ ~Alive') => cancelled
       /\ published' # published => collectorPc = "Running"
       /\ collectorPc = "Stopped" =>
              (collectorPc' = "Stopped" /\ published' = published)]_vars

\* C17: Subscribe(h) on the registry as it stands gives a registry one
\* longer, with h last and the earlier entries as they were; a step that
\* changes the registry adds exactly one entry at its end; and a step that
\* publishes, or in which a handler runs, leaves the registry unchanged.
C17_AppendOnlyRegistry ==
    /\ [](\A h \in BusHandlers \cup {"persist"} :
              LET r == SubscribeTo(subscribers, h)
              IN  /\ Len(r) = Len(subscribers) + 1
                  /\ r[Len(r)] = h
                  /\ SubSeq(r, 1, Len(subscribers)) = subscribers)
    /\ [][/\ subscribers' # subscribers =>
                 /\ Len(subscribers') = Len(subscribers) + 1
                 /\ SubSeq(subscribers', 1, Len(subscribers)) = subscribers
          /\ (published' # published \/ tasks' # tasks \/ procState' # procState)
                 => subscribers' = subscribers]_vars

\* C17 witness: a second, different handler was subscribed after an event
\* had been published to the first and handled, and the first is still first.
C17_Witness ==
    /\ Len(subscribers) = 2
    /\ subscribers[1] # subscribers[2]
    /\ \E k \in 1..Len(tasks) :
          /\ Len(published[tasks[k].pub].subs) = 1
          /\ tasks[k].st = "returned"
          /\ subscribers[1] = tasks[k].fn

\* Entries of a registry that are the closure of NewInfluxRepo.
PersistEntries(subs) == {i \in 1..Len(subs) : subs[i] = "persist"}

\* C18: the registry never holds the persistence handler more than once,
\* and holds it exactly when NewInfluxRepo has built its client; the
\* registry changes only while fx.New is calling NewInfluxRepo; once fx.New
\* has returned the registry holds exactly one persistence handler; and
\* every Publish spawned exactly one invocation of it.
C18_SingleRegistration ==
    /\ [](Cardinality(PersistEntries(subscribers)) = clientNew /\ clientNew <= 1)
    /\ [](mainPc \in {"start", "wait", "stop", "done"} =>
              Cardinality(PersistEntries(subscribers)) = 1)
    /\ [](\A n \in 1..Len(published) :
              Cardinality({k \in 1..Len(tasks) :
                              tasks[k].pub = n /\ tasks[k].fn = "persist"}) = 1)
    /\ [][subscribers' # subscribers =>
              (mainPc = "construct" /\ BuildPlan[ctorIdx] = "NewInfluxRepo")]_vars

\* C18 witness: after startup two events were published, each has its one
\* invocation of the persistence handler, and one of them has written.
C18_Witness ==
    /\ mainPc = "wait"
    /\ Len(published) = 2
    /\ Len(tasks) = 2
    /\ tasks[1].pub = 1 /\ tasks[2].pub = 2
    /\ \E k \in 1..2 : tasks[k].st = "wrote"

\* C19 as stated: after a startup that succeeded no invocation of the
\* persistence handler faults (with any configuration NewInfluxRepo
\* accepted, the batch is one the point can be added to); an invocation
\* that has ended has logged exactly one of point-create failure, write
\* failure and write success, and one that has not has logged nothing.
C19_HandlerNeverFaults ==
    \A k \in 1..Len(tasks) :
        /\ tasks[k].fn = "persist" => tasks[k].st # "panicked"
        /\ tasks[k].st \in {"pointFailed", "writeFailed", "wrote"} =>
              Cardinality({l \in logs : l.tid = k}) = 1
        /\ tasks[k].st \in {"spawned", "writing"} => \A l \in logs : l.tid # k

=============================================================================
